---- MODULE Spec2Model ----
(***************************************************************************)
(* Model of src/interpolator.py: CubicSplineInterpolator builds a cubic    *)
(* spline with the tridiagonal matrix algorithm and interpolates values.   *)
(*                                                                         *)
(* Floating-point numbers are modelled as exact fractions in sign and      *)
(* magnitude form, [s, n, d], together with the IEEE-754 special values    *)
(* the code can produce: signed zeros (n = 0), signed infinities (d = 0,   *)
(* n = 1) and NaN (d = 0, n = 0).  Rounding is not modelled.               *)
(* The constructor's inputs are Python lists of floats.                    *)
(***************************************************************************)
EXTENDS Integers, Sequences, FiniteSets

(***************************************************************************)
(* Bounds of the model.                                                    *)
(***************************************************************************)
MaxPoints == 4

MaxQueries == 2

(***************************************************************************)
(* Floating-point values.                                                  *)
(***************************************************************************)
RECURSIVE Gcd(_, _)
Gcd(m, n) == IF n = 0 THEN m ELSE Gcd(n, m % n)

NaN == [s |-> 1, n |-> 0, d |-> 0]

Inf(sign) == [s |-> sign, n |-> 1, d |-> 0]

\* The float sign * num / den, reduced; den = 0 gives an infinity or NaN.
Float(sign, num, den) ==
    IF den = 0 THEN (IF num = 0 THEN NaN ELSE Inf(sign))
    ELSE IF num = 0 THEN [s |-> sign, n |-> 0, d |-> 1]
    ELSE LET g == Gcd(num, den) IN [s |-> sign, n |-> num \div g, d |-> den \div g]

\* The float of the fraction num / den, den > 0.
Frac(num, den) == IF num < 0 THEN Float(-1, -num, den) ELSE Float(1, num, den)

Zero == Frac(0, 1)

One == Frac(1, 1)

Two == Frac(2, 1)

Six == Frac(6, 1)

IsNaN(a) == a.d = 0 /\ a.n = 0

IsInf(a) == a.d = 0 /\ a.n = 1

IsFinite(a) == a.d # 0

IsZero(a) == a.d # 0 /\ a.n = 0

\* a == b on floats: NaN equals nothing, -0.0 equals 0.0.
FEq(a, b) ==
    /\ ~IsNaN(a)
    /\ ~IsNaN(b)
    /\ \/ IsZero(a) /\ IsZero(b)
       \/ a = b

\* a < b on floats: false when either is NaN.
FLt(a, b) ==
    /\ ~IsNaN(a)
    /\ ~IsNaN(b)
    /\ IF IsInf(a) \/ IsInf(b)
       THEN (IF IsInf(a) /\ IsInf(b) THEN a.s < b.s
             ELSE IF IsInf(a) THEN a.s = -1 ELSE b.s = 1)
       ELSE LET g == Gcd(a.d, b.d)
            IN a.s * a.n * (b.d \div g) < b.s * b.n * (a.d \div g)

FGt(a, b) == FLt(b, a)

FLe(a, b) == FLt(a, b) \/ FEq(a, b)

FNeg(a) == IF IsNaN(a) THEN NaN ELSE [a EXCEPT !.s = -a.s]

FAdd(a, b) ==
    IF IsNaN(a) \/ IsNaN(b) THEN NaN
    ELSE IF IsInf(a) THEN (IF IsInf(b) /\ b.s # a.s THEN NaN ELSE a)
    ELSE IF IsInf(b) THEN b
    ELSE LET g == Gcd(a.d, b.d)
             x == a.n * (b.d \div g)
             y == b.n * (a.d \div g)
             den == (a.d \div g) * b.d
         IN IF a.s = b.s THEN Float(a.s, x + y, den)
            ELSE IF x > y THEN Float(a.s, x - y, den)
            ELSE IF y > x THEN Float(b.s, y - x, den)
            ELSE Zero

FSub(a, b) == FAdd(a, FNeg(b))

FMul(a, b) ==
    IF IsNaN(a) \/ IsNaN(b) THEN NaN
    ELSE IF a.d = 0 \/ b.d = 0 THEN Float(a.s * b.s, a.n * b.n, 0)
    ELSE LET g1 == Gcd(a.n, b.d)
             g2 == Gcd(b.n, a.d)
         IN Float(a.s * b.s, (a.n \div g1) * (b.n \div g2),
                  (a.d \div g2) * (b.d \div g1))

\* Division as numpy's float64 performs it: x / 0 is an infinity or NaN.
FDiv(a, b) ==
    IF IsNaN(a) \/ IsNaN(b) THEN NaN
    ELSE IF a.d = 0 \/ b.d = 0 \/ b.n = 0 \/ a.n = 0
         THEN Float(a.s * b.s, a.n * b.d, a.d * b.n)
    ELSE LET g1 == Gcd(a.n, b.n)
             g2 == Gcd(a.d, b.d)
         IN Float(a.s * b.s, (a.n \div g1) * (b.d \div g2),
                  (a.d \div g2) * (b.n \div g1))

(***************************************************************************)
(* Sequences are indexed from 0 as in the source.                          *)
(***************************************************************************)
At(seq, index) == seq[index + 1]

Put(seq, index, value) == [seq EXCEPT ![index + 1] = value]

Zeros(count) == [j \in 1..count |-> Zero]

(***************************************************************************)
(* Inputs of the constructor.                                              *)
(***************************************************************************)
\* Knots on the unit grid, and knots with a short first segment.
UnitGrid == {Frac(0, 1), Frac(1, 1), Frac(2, 1), Frac(3, 1), Frac(4, 1)}

ShortGrid ==
    {Frac(0, 1), Frac(1, 16), Frac(17, 16), Frac(33, 16), Frac(49, 16)}

ResultValues == {Frac(0, 1), Frac(1, 1)}

QueryValues == {Frac(-1, 1), Frac(1, 2), Frac(1, 1), Frac(5, 1)}

Functions == {"identity", "square"}

StrictlyAscending(seq) ==
    \A j \in 1..(Len(seq) - 1) : FLt(seq[j], seq[j + 1])

Ascending(seq) ==
    \A j \in 1..(Len(seq) - 1) : FLe(seq[j], seq[j + 1])

SeqsUpTo(values, low, high) ==
    UNION {[1..len -> values] : len \in low..high}

\* Sample sets the docstring of __init__ asks for: ascending arguments, one
\* result for each argument.
SampleArguments ==
    {seq \in SeqsUpTo(UnitGrid, 2, MaxPoints) \cup SeqsUpTo(ShortGrid, 2, MaxPoints) :
        StrictlyAscending(seq)}

SplineArguments ==
    {seq \in SeqsUpTo(QueryValues, 0, MaxQueries) : Ascending(seq)}

\* Arguments and results of any shape: any order, any lengths.
AnyValues == {Frac(0, 1), Frac(1, 1), Frac(2, 1)}

AnyArguments == SeqsUpTo(AnyValues, 0, MaxPoints)

AnyResults == SeqsUpTo(ResultValues, 0, MaxPoints)

(***************************************************************************)
(* State.                                                                  *)
(***************************************************************************)
VARIABLES
    function_arguments,  \* self.function_arguments
    results,             \* self.results
    spline_arguments,    \* self.spline_arguments
    local_splines,       \* the list `splines` of build and solve_equations_system
    splines,             \* self.splines
    splines_assigned,    \* how many times self.splines was assigned
    alpha,               \* alpha of solve_equations_system
    beta,                \* beta of solve_equations_system
    divider,             \* divider of the last forward sweep step
    i,                   \* the running loop's index
    interpolated_data,   \* the list __init__ collects for self.interpolated_data
    lookups,             \* the index interpolate computed for each query of __init__
    pc,                  \* position in __init__, "ready" once it has returned
    exception,           \* the exception __init__ raised, "none" if none
    call                 \* the last call made on the constructed object

vars ==
    <<function_arguments, results, spline_arguments, local_splines, splines,
      splines_assigned, alpha, beta, divider, i, interpolated_data, lookups,
      pc, exception, call>>

inputs == <<function_arguments, results, spline_arguments>>

lines == Len(function_arguments)

Spline(a, b, c, d, x) == [a |-> a, b |-> b, c |-> c, d |-> d, x |-> x]

NoCall ==
    [op |-> "none", value |-> Zero, function |-> "none", index |-> 0,
     exc |-> "none", result |-> Zero]

InitState ==
    /\ local_splines = <<>>
    /\ splines = <<>>
    /\ splines_assigned = 0
    /\ alpha = <<>>
    /\ beta = <<>>
    /\ divider = One
    /\ i = 0
    /\ interpolated_data = <<>>
    /\ lookups = <<>>
    /\ pc = "build"
    /\ exception = "none"
    /\ call = NoCall

Init ==
    /\ function_arguments \in SampleArguments
    /\ results \in [1..Len(function_arguments) -> ResultValues]
    /\ spline_arguments \in SplineArguments
    /\ InitState

InitAny ==
    \/ Init
    \/ /\ function_arguments \in AnyArguments
       /\ results \in AnyResults
       /\ spline_arguments = <<>>
       /\ InitState

Raise(name) ==
    /\ pc' = "raised"
    /\ exception' = name

(***************************************************************************)
(* build, lines 54-69, and the allocation of solve_equations_system.       *)
(***************************************************************************)
\* Where build goes once its list is made: the sweeps of
\* solve_equations_system run for lines >= 3, the loop of build for lines >= 2.
AfterBuildInit ==
    IF lines >= 3 THEN "forward" ELSE IF lines >= 2 THEN "derive" ELSE "return"

BuildInit ==
    /\ pc = "build"
    /\ IF Len(results) < lines \/ lines = 0
       THEN /\ Raise("IndexError")
            /\ UNCHANGED <<local_splines, alpha, beta, i>>
       ELSE /\ local_splines' =
                  [j \in 1..lines |->
                      Spline(results[j], Zero, Zero, Zero, function_arguments[j])]
            /\ alpha' = Zeros(lines - 1)
            /\ beta' = Zeros(lines - 1)
            /\ pc' = AfterBuildInit
            /\ i' = IF lines >= 3 THEN 1 ELSE lines - 1
            /\ UNCHANGED exception
    /\ UNCHANGED <<inputs, splines, splines_assigned, divider,
                   interpolated_data, lookups, call>>

(***************************************************************************)
(* solve_equations_system.                                                 *)
(***************************************************************************)
CurrentDelta(sp, index) == FSub(At(sp, index).x, At(sp, index - 1).x)

NextDelta(sp, index) == FSub(At(sp, index + 1).x, At(sp, index).x)

ForwardF(sp, res, index) ==
    FMul(Six,
         FSub(FDiv(FSub(At(res, index + 1), At(res, index)), NextDelta(sp, index)),
              FDiv(FSub(At(res, index), At(res, index - 1)), CurrentDelta(sp, index))))

Divider(current_delta, next_delta, previous_alpha) ==
    FMul(current_delta,
         FAdd(previous_alpha, FMul(Two, FAdd(One, next_delta))))

ForwardAlpha(next_delta, div) == FDiv(FNeg(next_delta), div)

ForwardBeta(F, current_delta, previous_beta, div) ==
    FDiv(FSub(F, FMul(current_delta, previous_beta)), div)

\* One iteration of the forward sweep.  The two divisions of F divide a Python
\* float by a Python float and raise on a zero; the divisions by divider are
\* numpy's, divider being a numpy.float64.
ForwardStep ==
    /\ pc = "forward"
    /\ LET current_delta == CurrentDelta(local_splines, i)
           next_delta == NextDelta(local_splines, i)
           div == Divider(current_delta, next_delta, At(alpha, i - 1))
       IN IF IsZero(next_delta) \/ IsZero(current_delta)
          THEN /\ Raise("ZeroDivisionError")
               /\ UNCHANGED <<alpha, beta, divider, i>>
          ELSE /\ divider' = div
               /\ alpha' = Put(alpha, i, ForwardAlpha(next_delta, div))
               /\ beta' = Put(beta, i,
                              ForwardBeta(ForwardF(local_splines, results, i),
                                          current_delta, At(beta, i - 1), div))
               /\ IF i + 1 <= lines - 2
                  THEN /\ i' = i + 1
                       /\ pc' = "forward"
                  ELSE /\ i' = lines - 2
                       /\ pc' = "backward"
               /\ UNCHANGED exception
    /\ UNCHANGED <<inputs, local_splines, splines, splines_assigned,
                   interpolated_data, lookups, call>>

\* The backward sweep writing one record too low.
BackwardCOffByOne(sp, al, be, index) ==
    Put(sp, index - 1,
        [At(sp, index - 1) EXCEPT
            !.c = FAdd(FMul(At(al, index), At(sp, index + 1).c), At(be, index))])

BackwardC(sp, al, be, index) ==
    Put(sp, index,
        [At(sp, index) EXCEPT
            !.c = FAdd(FMul(At(al, index), At(sp, index + 1).c), At(be, index))])

\* One iteration of the backward sweep.
BackwardStep ==
    /\ pc = "backward"
    /\ local_splines' = BackwardC(local_splines, alpha, beta, i)
    /\ IF i - 1 >= 1
       THEN /\ i' = i - 1
            /\ pc' = "backward"
       ELSE /\ i' = lines - 1
            /\ pc' = "derive"
    /\ UNCHANGED <<inputs, splines, splines_assigned, alpha, beta, divider,
                   interpolated_data, lookups, exception, call>>

(***************************************************************************)
(* build, lines 72-81.                                                     *)
(***************************************************************************)
DeriveD(sp, index, delta) ==
    FDiv(FSub(At(sp, index).c, At(sp, index - 1).c), delta)

\* b with the slope term multiplied by delta instead of divided.
DeriveBTimesDelta(sp, res, index, delta) ==
    FAdd(FDiv(FMul(delta,
                   FAdd(FMul(Two, At(sp, index).c), At(sp, index - 1).c)),
              Six),
         FMul(FSub(At(res, index), At(res, index - 1)), delta))

DeriveB(sp, res, index, delta) ==
    FAdd(FDiv(FMul(delta,
                   FAdd(FMul(Two, At(sp, index).c), At(sp, index - 1).c)),
              Six),
         FDiv(FSub(At(res, index), At(res, index - 1)), delta))

\* One iteration of the loop of build.  A zero delta gets here only with
\* lines = 2 (the forward sweep raises on it first), where both c are Python
\* floats and the division raises.
DeriveStep ==
    /\ pc = "derive"
    /\ LET delta == CurrentDelta(local_splines, i)
       IN IF IsZero(delta)
          THEN /\ Raise("ZeroDivisionError")
               /\ UNCHANGED <<local_splines, i>>
          ELSE /\ local_splines' =
                     Put(local_splines, i,
                         [At(local_splines, i) EXCEPT
                             !.d = DeriveD(local_splines, i, delta),
                             !.b = DeriveB(local_splines, results, i, delta)])
               /\ IF i - 1 >= 1
                  THEN /\ i' = i - 1
                       /\ pc' = "derive"
                  ELSE /\ i' = 0
                       /\ pc' = "return"
               /\ UNCHANGED exception
    /\ UNCHANGED <<inputs, splines, splines_assigned, alpha, beta, divider,
                   interpolated_data, lookups, call>>

\* build returns its list and __init__ assigns it to self.splines (line 41).
BuildReturn ==
    /\ pc = "return"
    /\ splines' = local_splines
    /\ splines_assigned' = splines_assigned + 1
    /\ i' = 0
    /\ pc' = IF Len(spline_arguments) > 0 THEN "batch" ELSE "ready"
    /\ UNCHANGED <<inputs, local_splines, alpha, beta, divider,
                   interpolated_data, lookups, exception, call>>

(***************************************************************************)
(* interpolate.                                                            *)
(***************************************************************************)
\* bisect.bisect_left(a, x, lo, hi) of the standard library.
RECURSIVE bisect_left(_, _, _, _)
bisect_left(a, x, lo, hi) ==
    IF lo < hi
    THEN LET mid == (lo + hi) \div 2
         IN IF FLt(At(a, mid), x)
            THEN bisect_left(a, x, mid + 1, hi)
            ELSE bisect_left(a, x, lo, mid)
    ELSE lo

\* bisect.bisect_right(a, x, lo, hi) of the standard library.
RECURSIVE bisect_right(_, _, _, _)
bisect_right(a, x, lo, hi) ==
    IF lo < hi
    THEN LET mid == (lo + hi) \div 2
         IN IF FLt(x, At(a, mid))
            THEN bisect_right(a, x, lo, mid)
            ELSE bisect_right(a, x, mid + 1, hi)
    ELSE lo

\* The lookup done with bisect_right.
LookupIndexRight(arguments, value) ==
    bisect_right(arguments, value, 0, Len(arguments))

LookupIndex(arguments, value) == bisect_left(arguments, value, 0, Len(arguments))

\* The polynomial of lines 122-127 at delta = value - spline.x.
Polynomial(spline, delta) ==
    FAdd(FAdd(FAdd(spline.a,
                   FMul(spline.b, delta)),
              FDiv(FMul(spline.c, FMul(delta, delta)), Two)),
         FDiv(FMul(spline.d, FMul(FMul(delta, delta), delta)), Six))

Evaluate(spline, value) == Polynomial(spline, FSub(value, spline.x))

\* What interpolate(value) does on the lists given: the index it computes, the
\* exception it raises and the value it returns.
InterpolateOutcome(arguments, sp, value) ==
    LET index == LookupIndex(arguments, value)
    IN IF index >= Len(sp)
       THEN [index |-> index, exc |-> "IndexError", result |-> Zero]
       ELSE [index |-> index, exc |-> "none",
             result |-> Evaluate(At(sp, index), value)]

\* One element of the list comprehension of __init__ (lines 42-43).
BatchStep ==
    /\ pc = "batch"
    /\ LET out == InterpolateOutcome(function_arguments, splines,
                                     At(spline_arguments, i))
       IN IF out.exc # "none"
          THEN /\ Raise(out.exc)
               /\ lookups' = Append(lookups, out.index)
               /\ UNCHANGED <<interpolated_data, i>>
          ELSE /\ interpolated_data' = Append(interpolated_data, out.result)
               /\ lookups' = Append(lookups, out.index)
               /\ i' = i + 1
               /\ pc' = IF i + 1 < Len(spline_arguments) THEN "batch" ELSE "ready"
               /\ UNCHANGED exception
    /\ UNCHANGED <<inputs, local_splines, splines, splines_assigned, alpha,
                   beta, divider, call>>

InterpolateCall(value, out) ==
    [op |-> "interpolate", value |-> value, function |-> "none",
     index |-> out.index, exc |-> out.exc, result |-> out.result]

\* interpolate keeping its delta in the record it read.
InterpolateInPlace(value) ==
    /\ pc = "ready"
    /\ LET out == InterpolateOutcome(function_arguments, splines, value)
       IN /\ call' = InterpolateCall(value, out)
          /\ splines' =
                IF out.exc = "none"
                THEN Put(splines, out.index,
                         [At(splines, out.index) EXCEPT
                             !.x = FSub(value, At(splines, out.index).x)])
                ELSE splines
    /\ UNCHANGED <<inputs, local_splines, splines_assigned, alpha,
                   beta, divider, i, interpolated_data, lookups, pc, exception>>

\* A call of interpolate on the constructed object.
Interpolate(value) ==
    /\ pc = "ready"
    /\ call' = InterpolateCall(value,
                               InterpolateOutcome(function_arguments, splines, value))
    /\ UNCHANGED <<inputs, local_splines, splines, splines_assigned, alpha,
                   beta, divider, i, interpolated_data, lookups, pc, exception>>

(***************************************************************************)
(* get_interpolation_error.                                                *)
(***************************************************************************)
Apply(function, arg) ==
    IF function = "square" THEN FMul(arg, arg) ELSE arg

\* max() of Python over a non-empty sequence: the first item, replaced by
\* each later item that compares greater.
RECURSIVE PyMax(_, _, _)
PyMax(seq, from, best) ==
    IF from > Len(seq) THEN best
    ELSE PyMax(seq, from + 1, IF FGt(seq[from], best) THEN seq[from] ELSE best)

\* The items of the generator of lines 181-182.
ErrorItems(function, arguments, data) ==
    [k \in 1..Len(arguments) |-> FSub(Apply(function, arguments[k]), data[1])]

GetInterpolationError(function) ==
    /\ pc = "ready"
    /\ call' =
          IF Len(spline_arguments) = 0
          THEN [op |-> "get_interpolation_error", value |-> Zero,
                function |-> function, index |-> 0, exc |-> "ValueError",
                result |-> Zero]
          ELSE LET items == ErrorItems(function, spline_arguments,
                                       interpolated_data)
               IN [op |-> "get_interpolation_error", value |-> Zero,
                   function |-> function, index |-> 0, exc |-> "none",
                   result |-> PyMax(items, 2, items[1])]
    /\ UNCHANGED <<inputs, local_splines, splines, splines_assigned, alpha,
                   beta, divider, i, interpolated_data, lookups, pc, exception>>

(***************************************************************************)
(* Specifications.                                                         *)
(***************************************************************************)
\* Queries of a call: the knots of the object and the values of QueryValues.
CallValues ==
    {function_arguments[j] : j \in 1..Len(function_arguments)} \cup QueryValues

Next ==
    \/ BuildInit
    \/ ForwardStep
    \/ BackwardStep
    \/ DeriveStep
    \/ BuildReturn
    \/ BatchStep
    \/ \E value \in CallValues : Interpolate(value)
    \/ \E function \in Functions : GetInterpolationError(function)

\* Construction from ascending arguments with one result each.
Spec == Init /\ [][Next]_vars

\* Construction from those inputs and from arguments and results of any shape.
SpecAny == InitAny /\ [][Next]_vars

(***************************************************************************)
(* Properties.                                                             *)
(***************************************************************************)
\* build has returned its list.
Built == pc \in {"return", "batch", "ready"}

\* build has made its list.
Allocated == pc \in {"forward", "backward", "derive", "return", "batch", "ready"}

ValidInput ==
    /\ Len(results) = lines
    /\ lines >= 2
    /\ StrictlyAscending(function_arguments)

KnotIndexes == 0..(lines - 1)

InteriorKnots == 1..(lines - 2)

InRange(value) ==
    /\ FLe(At(function_arguments, 0), value)
    /\ FLe(value, At(function_arguments, lines - 1))

\* First and second derivative of the cubic of a record at t.
FirstDerivative(spline, t) ==
    LET delta == FSub(t, spline.x)
    IN FAdd(FAdd(spline.b, FMul(spline.c, delta)),
            FDiv(FMul(spline.d, FMul(delta, delta)), Two))

SecondDerivative(spline, t) ==
    FAdd(spline.c, FMul(spline.d, FSub(t, spline.x)))

\* C1: construction on invalid input (counts differ, fewer than two points,
\* arguments not strictly ascending) fails with InvalidInputError and makes
\* no coefficient sequence available.
C1_InvalidInputRejected ==
    ~ValidInput =>
        /\ pc # "ready"
        /\ splines_assigned = 0
        /\ pc = "raised" => exception = "InvalidInputError"

\* C2: at every interior knot x[k] of a built spline the cubics of records k
\* and k + 1 agree in value, in first derivative and in second derivative.
C2_Continuity ==
    Built =>
        \A k \in InteriorKnots :
            LET t == At(function_arguments, k)
                left == At(local_splines, k)
                right == At(local_splines, k + 1)
            IN /\ FEq(Evaluate(left, t), Evaluate(right, t))
               /\ FEq(FirstDerivative(left, t), FirstDerivative(right, t))
               /\ FEq(SecondDerivative(left, t), SecondDerivative(right, t))

\* C3: interpolate at a knot x[k] returns results[k], in a call on the
\* constructed object and in the queries of __init__.
C3_InterpolationAtKnots ==
    \A k \in KnotIndexes :
        /\ (call.op = "interpolate" /\ call.value = At(function_arguments, k)) =>
              /\ call.exc = "none"
              /\ call.index = k
              /\ FEq(call.result, At(results, k))
        /\ \A q \in 1..Len(interpolated_data) :
              spline_arguments[q] = At(function_arguments, k) =>
                  FEq(interpolated_data[q], At(results, k))

\* C4: once build has made its list of a sample set of N >= 2 points, the
\* list has N records and through both sweeps, the loop of build and ever
\* after the c of the first and of the last record is 0.0; so it is in
\* self.splines.
C4_NaturalBoundary ==
    (Allocated /\ lines >= 2) =>
        /\ Len(local_splines) = lines
        /\ At(local_splines, 0).c = Zero
        /\ At(local_splines, lines - 1).c = Zero
        /\ splines_assigned = 1 =>
              /\ Len(splines) = lines
              /\ At(splines, 0).c = Zero
              /\ At(splines, lines - 1).c = Zero

\* The sweeps of solve_equations_system have written an interior c and the
\* object is constructed.
C4_Witness ==
    /\ pc = "ready"
    /\ lines = MaxPoints
    /\ \A k \in InteriorKnots :
          IsFinite(At(splines, k).c) /\ ~IsZero(At(splines, k).c)

\* C5: a query outside [x[0], x[N-1]] is rejected with OutOfRangeQuery or
\* answered from a record of the sequence, never indexed out of bounds: no
\* call of interpolate and no query of __init__ ends in IndexError.
C5_OutOfRangePolicy ==
    /\ (call.op = "interpolate" /\ ~InRange(call.value)) =>
          /\ call.exc \in {"none", "OutOfRangeQuery"}
          /\ call.index < lines
    /\ pc = "raised" => exception # "IndexError"

\* First index of `arguments` whose value is >= value, their count if none.
LowerBound(arguments, value) ==
    LET hits == {j \in 0..(Len(arguments) - 1) : FLe(value, At(arguments, j))}
    IN IF hits = {} THEN Len(arguments)
       ELSE CHOOSE j \in hits : \A other \in hits : j <= other

\* C6: the index interpolate computes is the lower bound of the query among
\* the knots, and over the ascending queries of __init__ the indices never
\* decrease.
C6_MonotonicLookup ==
    /\ \A q \in 1..Len(lookups) :
          lookups[q] = LowerBound(function_arguments, spline_arguments[q])
    /\ \A q \in 1..(Len(lookups) - 1) : lookups[q] <= lookups[q + 1]
    /\ call.op = "interpolate" =>
          call.index = LowerBound(function_arguments, call.value)

\* __init__ has looked up two queries that fall on different records, and a
\* call has looked up a knot that is not the first.
C6_Witness ==
    /\ pc = "ready"
    /\ Len(lookups) = 2
    /\ lookups[1] < lookups[2]
    /\ call.op = "interpolate"
    /\ call.index > 0
    /\ call.value = At(function_arguments, call.index)

\* The straight line through the two points of a sample set of two.
Linear(value) ==
    LET x0 == At(function_arguments, 0)
        x1 == At(function_arguments, 1)
        r0 == At(results, 0)
        r1 == At(results, 1)
    IN FAdd(r0, FDiv(FMul(FSub(r1, r0), FSub(value, x0)), FSub(x1, x0)))

\* C7: with N = 2 build leaves c = 0 in both records and interpolate of a
\* query in [x0, x1] is the straight line between the two points.
C7_MinimalCaseLinear ==
    lines = 2 =>
        /\ Built => At(local_splines, 0).c = Zero /\ At(local_splines, 1).c = Zero
        /\ (call.op = "interpolate" /\ InRange(call.value)) =>
              /\ call.exc = "none"
              /\ FEq(call.result, Linear(call.value))
        /\ \A q \in 1..Len(interpolated_data) :
              InRange(spline_arguments[q]) =>
                  FEq(interpolated_data[q], Linear(spline_arguments[q]))

\* Arguments [0, 1] with different results: interpolate(0.5) is their mean.
C7_Witness ==
    /\ function_arguments = <<Frac(0, 1), Frac(1, 1)>>
    /\ results[1] # results[2]
    /\ pc = "ready"
    /\ call.op = "interpolate"
    /\ call.value = Frac(1, 2)
    /\ call.result = FDiv(FAdd(results[1], results[2]), Two)
    /\ Len(interpolated_data) = MaxQueries

\* C8: self.splines is assigned once, by build in __init__; every query of
\* __init__ and every call on the constructed object leaves the sequence,
\* each field of each record, as it is.
C8_EvaluationReadOnly ==
    [][/\ splines_assigned' <= 1
       /\ pc \in {"batch", "ready"} =>
             /\ splines' = splines
             /\ splines_assigned' = splines_assigned]_vars

\* The queries of __init__ and a call of interpolate have been answered from
\* the sequence build assigned.
C8_Witness ==
    /\ pc = "ready"
    /\ Len(interpolated_data) = MaxQueries
    /\ call.op = "interpolate"
    /\ call.exc = "none"
    /\ call.index > 0
    /\ splines_assigned = 1
    /\ splines = local_splines

\* function(q) minus the interpolated value of the same query q.
PointwiseItems(function, arguments, data) ==
    [k \in 1..Len(arguments) |-> FSub(Apply(function, arguments[k]), data[k])]

\* C9: get_interpolation_error(function) is the maximum over the queries of
\* function(query) minus the interpolated value of that query.
C9_ErrorMetricPointwise ==
    (call.op = "get_interpolation_error" /\ call.exc = "none") =>
        LET items == PointwiseItems(call.function, spline_arguments,
                                    interpolated_data)
        IN call.result = PyMax(items, 2, items[1])

AllFinite(sp) ==
    \A k \in 1..Len(sp) :
        /\ IsFinite(sp[k].a)
        /\ IsFinite(sp[k].b)
        /\ IsFinite(sp[k].c)
        /\ IsFinite(sp[k].d)
        /\ IsFinite(sp[k].x)

\* C10: the divider of every step of the forward sweep is non-zero, and build
\* completes with N records of finite coefficients.
C10_NonZeroPivot ==
    /\ ~IsZero(divider)
    /\ Built => Len(local_splines) = lines /\ AllFinite(local_splines)

====
